---------------------------- MODULE Spec2Model ----------------------------
(***************************************************************************)
(* Analytics snapshot subsystem of the ai-land dashboard.                  *)
(*                                                                         *)
(*   - the stored procedure insert_analytics_snapshot (the persistence     *)
(*     guard) over the table analytics_history;                            *)
(*   - the React component ModelCountLineGraph: daily bucketing            *)
(*     (filteredData), series construction (chartData) and the dynamic     *)
(*     y axis (yAxisConfig), its requests and its export;                  *)
(*   - the Analytics page that polls the model list;                       *)
(*   - the bulk write gateway's replaceAllModels.                          *)
(*                                                                         *)
(* Time is counted in whole hours since the epoch (1970-01-01T00:00Z), so  *)
(* a UTC calendar day is 24 consecutive units starting at a multiple of    *)
(* 24.                                                                     *)
(***************************************************************************)
EXTENDS Integers, Sequences, FiniteSets, TLC

VARIABLES
    clock,                       \* the database / browser clock, in hours
    store,                       \* rows of public.analytics_history
    nextId,                      \* the table's serial id
    pc,                          \* per caller: position inside the stored procedure
    txNow,                       \* per caller: now() of the running call
    lastEntry,                   \* per caller: the local last_entry
    args,                        \* per caller: the call's arguments
    ret,                         \* per caller: result of the last completed call
    historicalData,              \* useState historicalData
    timeRange,                   \* useState timeRange
    selectedInferenceProviders,  \* useState, in the Set's insertion order
    selectedModelProviders,      \* useState, in the Set's insertion order
    filteredData,                \* useMemo filteredData
    chartData,                   \* useMemo chartData (the datasets)
    yAxisConfig,                 \* useMemo yAxisConfig
    isCollapsed,                 \* useState isCollapsed
    view,                        \* what ModelCountLineGraph renders
    loading,                     \* Analytics: useState loading
    error,                       \* Analytics: useState error ("" for null)
    models,                      \* Analytics: useState models (currentModels)
    fetchPc,                     \* Analytics: position of the fetch in flight
    rawData,                     \* Analytics: the answer to fetchModelData
    loadPc,                      \* position of loadHistoricalData
    loadResp,                    \* the answer to loadHistoricalData's query
    collectPc,                   \* per call: position of collectAnalyticsData
    reloadResp,                  \* per call: the answer to the reload query
    clearPc,                     \* position of clearData
    clearResp,                   \* the answer to clearData's delete
    exported,                    \* the document exportData last downloaded
    modelsData,                  \* gateway: req.body.models || []
    ai_models_discovery,         \* gateway: rows of the models table
    tableNextId,                 \* gateway: the models table's serial id
    replacePc,                   \* gateway: position inside replaceAllModels
    batchIndex,                  \* gateway: the loop's i
    insertedCount,               \* gateway: let insertedCount
    awaited,                     \* gateway: what the last await produced
    res                          \* gateway: the response sent

storeVars == <<clock, store, nextId, pc, txNow, lastEntry, args, ret>>

viewVars == <<historicalData, timeRange, selectedInferenceProviders,
              selectedModelProviders, filteredData, chartData, yAxisConfig>>

clientVars == <<isCollapsed, view, loading, error, models, fetchPc, rawData,
                loadPc, loadResp, collectPc, reloadResp, clearPc, clearResp>>

gatewayVars == <<modelsData, ai_models_discovery, tableNextId, replacePc,
                 batchIndex, insertedCount, awaited, res>>

vars == <<clock, store, nextId, pc, txNow, lastEntry, args, ret,
          historicalData, timeRange, selectedInferenceProviders,
          selectedModelProviders, filteredData, chartData, yAxisConfig,
          isCollapsed, view, loading, error, models, fetchPc, rawData,
          loadPc, loadResp, collectPc, reloadResp, clearPc, clearResp,
          exported, modelsData, ai_models_discovery, tableNextId, replacePc,
          batchIndex, insertedCount, awaited, res>>

(***************************************************************************)
(* Bounds of the model.                                                    *)
(***************************************************************************)
\* the clock of the sequential writer's specification stops here
MaxClock == 24

\* the clock of the concurrent callers' specification stops here
MaxRaceClock == 12

\* longest snapshot history given to the bucketing
MaxBucketPoints == 3

\* longest snapshot history given to the series and axis construction
MaxChartPoints == 2

(***************************************************************************)
(* Program constants.                                                      *)
(***************************************************************************)
\* INTERVAL '12 hours'
MinInterval == 12

\* 24 * 60 * 60 * 1000 ms, in hours
DayHours == 24

\* last_entry IS NULL
NoEntry == -1

Providers == {"groq", "google"}

TimeRanges == {"24h", "7d", "30d", "all"}

\* the calls that can be in flight together: from two browser tabs, or from
\* two overlapping polling cycles of one tab
Callers == {"tab1", "tab2"}

\* the single writer of the sequential specification
SingleWriter == {"tab1"}

Max(S) == CHOOSE x \in S : \A y \in S : y <= x

Min(S) == CHOOSE x \in S : \A y \in S : x <= y

Range(s) == {s[i] : i \in DOMAIN s}

(***************************************************************************)
(* Snapshot payloads: what a caller passes to insert_analytics_snapshot.   *)
(* A count mapping is a function from the provider names it has to         *)
(* counts.                                                                 *)
(***************************************************************************)
EmptyCounts == [p \in {} |-> 0]

Payload(total, inf, mod) ==
    [total_models |-> total,
     inference_provider_counts |-> inf,
     model_provider_counts |-> mod]

\* the arguments of a caller that is not inside a call
NoArgs == Payload(0, EmptyCounts, EmptyCounts)

GuardPayloads ==
    { Payload(3, [p \in {"groq"} |-> 3], [p \in {"google"} |-> 3]),
      Payload(4, [p \in Providers |-> 2], [p \in {"groq"} |-> 4]) }

(***************************************************************************)
(* The persistence guard: public.insert_analytics_snapshot.                *)
(***************************************************************************)
\* SELECT timestamp INTO last_entry ... ORDER BY timestamp ASC LIMIT 1
LastEntryOldest(rows) ==
    IF rows = {} THEN NoEntry ELSE Min({r.timestamp : r \in rows})

\* a select that answers hour 0 instead of NULL over an empty table
LastEntryNeverNull(rows) ==
    IF rows = {} THEN 0 ELSE Max({r.timestamp : r \in rows})

\* SELECT timestamp INTO last_entry ... ORDER BY timestamp DESC LIMIT 1
LastEntry(rows) ==
    IF rows = {} THEN NoEntry ELSE Max({r.timestamp : r \in rows})

\* the guard with a strict comparison
GuardPassesStrict(last, now) ==
    last = NoEntry \/ now - last > MinInterval

\* the guard of the superseded 5-minute policy: any whole hour exceeds it
GuardPassesFiveMinutes(last, now) ==
    last = NoEntry \/ now - last >= 1

\* no guard: every call inserts
GuardPassesAlways(last, now) == TRUE

\* the guard with half the interval
GuardPassesHalfInterval(last, now) ==
    last = NoEntry \/ now - last >= MinInterval \div 2

\* last_entry IS NULL OR (now() - last_entry) >= INTERVAL '12 hours'
GuardPasses(last, now) ==
    last = NoEntry \/ now - last >= MinInterval

\* the column default of analytics_history.timestamp: now(), which is the
\* start time of the calling transaction
TimestampDefault(c) == txNow[c]

\* an insert that writes over the row with id 1
NewRowReusingId(c) ==
    [id |-> 1,
     timestamp |-> TimestampDefault(c),
     total_models |-> args[c].total_models,
     inference_provider_counts |-> args[c].inference_provider_counts,
     model_provider_counts |-> args[c].model_provider_counts]

\* INSERT INTO public.analytics_history (...) VALUES (...)
NewRow(c) ==
    [id |-> nextId,
     timestamp |-> TimestampDefault(c),
     total_models |-> args[c].total_models,
     inference_provider_counts |-> args[c].inference_provider_counts,
     model_provider_counts |-> args[c].model_provider_counts]

\* supabase.rpc('insert_analytics_snapshot', {...}): the call starts and
\* now() is fixed for the whole call
CallBegins(c, p) ==
    /\ pc[c] = "idle"
    /\ pc' = [pc EXCEPT ![c] = "begun"]
    /\ txNow' = [txNow EXCEPT ![c] = clock]
    /\ args' = [args EXCEPT ![c] = p]
    /\ lastEntry' = [lastEntry EXCEPT ![c] = NoEntry]
    /\ ret' = [ret EXCEPT ![c] = "none"]

\* a call made with a given payload, whoever makes it
BeginCall(c, p) ==
    /\ CallBegins(c, p)
    /\ UNCHANGED <<clock, store, nextId>>
    /\ UNCHANGED viewVars
    /\ UNCHANGED clientVars
    /\ UNCHANGED <<exported, gatewayVars>>

\* the SELECT ... INTO last_entry statement
SelectLastEntry(c) ==
    /\ pc[c] = "begun"
    /\ lastEntry' = [lastEntry EXCEPT ![c] = LastEntry(store)]
    /\ pc' = [pc EXCEPT ![c] = "selected"]
    /\ UNCHANGED <<clock, store, nextId, txNow, args, ret>>
    /\ UNCHANGED viewVars
    /\ UNCHANGED clientVars
    /\ UNCHANGED <<exported, gatewayVars>>

\* IF ... THEN INSERT ...; RETURN true; END IF; RETURN false;
InsertOrSkip(c) ==
    /\ pc[c] = "selected"
    /\ pc' = [pc EXCEPT ![c] = "idle"]
    /\ IF GuardPasses(lastEntry[c], txNow[c])
         THEN /\ store' = store \cup {NewRow(c)}
              /\ nextId' = nextId + 1
              /\ ret' = [ret EXCEPT ![c] = "true"]
         ELSE /\ ret' = [ret EXCEPT ![c] = "false"]
              /\ UNCHANGED <<store, nextId>>
    /\ txNow' = [txNow EXCEPT ![c] = 0]
    /\ lastEntry' = [lastEntry EXCEPT ![c] = NoEntry]
    /\ args' = [args EXCEPT ![c] = NoArgs]
    /\ UNCHANGED clock
    /\ UNCHANGED viewVars
    /\ UNCHANGED clientVars
    /\ UNCHANGED <<exported, gatewayVars>>

\* the instants at which the model looks at the clock: the hours next to a
\* multiple of the guard interval
Instants(limit) ==
    {t \in 0..limit : t % MinInterval \in {0, 1, MinInterval - 1}}

\* time passes, up to the next instant
Tick(limit) ==
    /\ \E t \in Instants(limit) : t > clock
    /\ clock' = Min({t \in Instants(limit) : t > clock})
    /\ UNCHANGED <<store, nextId, pc, txNow, lastEntry, args, ret>>
    /\ UNCHANGED viewVars
    /\ UNCHANGED clientVars
    /\ UNCHANGED <<exported, gatewayVars>>


(***************************************************************************)
(* ModelCountLineGraph: the in-memory history and the daily bucketing.     *)
(***************************************************************************)
\* the mapping of a stored row to a HistoricalDataPoint
FormatRow(item) ==
    [id |-> item.id,
     timestamp |-> item.timestamp,
     totalCount |-> item.total_models,
     providerCounts |->
        [inferenceProviders |-> item.inference_provider_counts,
         modelProviders |-> item.model_provider_counts]]

\* const cutoffTime = (() => { switch (timeRange) ... })()
CutoffTime(range, now) ==
    CASE range = "24h" -> now - DayHours
      [] range = "7d" -> now - 7 * DayHours
      [] range = "30d" -> now - 30 * DayHours
      [] range = "all" -> 0
      [] OTHER -> now - 7 * DayHours

\* historicalData.filter(point => point.timestamp >= cutoffTime)
TimeFiltered(data, cutoffTime) ==
    SelectSeq(data, LAMBDA point : point.timestamp >= cutoffTime)

\* point.timestamp.toISOString().split('T')[0]: the UTC calendar day,
\* numbered from the epoch
DateKey(timestamp) == timestamp \div DayHours

\* the day's first entry is never replaced
ReplacesExistingNever(point, existing) == FALSE

\* the day's earliest entry is kept
ReplacesExistingEarlier(point, existing) ==
    point.timestamp < existing.timestamp

\* point.timestamp > existing.timestamp
ReplacesExisting(point, existing) ==
    point.timestamp > existing.timestamp

\* timeFiltered.forEach(point => { ... dailyData.set(dateKey, point) ... }):
\* the Map as the sequence of its entries in insertion order
RECURSIVE DailyData(_, _, _)
DailyData(timeFiltered, i, dailyData) ==
    IF i > Len(timeFiltered) THEN dailyData
    ELSE LET point == timeFiltered[i]
             dateKey == DateKey(point.timestamp)
             at == {k \in DOMAIN dailyData : dailyData[k].key = dateKey}
         IN  IF at = {}
             THEN DailyData(timeFiltered, i + 1,
                            Append(dailyData, [key |-> dateKey, value |-> point]))
             ELSE LET k == CHOOSE k \in at : TRUE
                  IN  IF ReplacesExisting(point, dailyData[k].value)
                      THEN DailyData(timeFiltered, i + 1,
                                     [dailyData EXCEPT ![k].value = point])
                      ELSE DailyData(timeFiltered, i + 1, dailyData)

\* Array.from(dailyData.values())
MapValues(dailyData) == [k \in DOMAIN dailyData |-> dailyData[k].value]

\* one step of the stable sort: point goes behind every entry that is not
\* later than it
RECURSIVE InsertByTimestamp(_, _)
InsertByTimestamp(sorted, point) ==
    IF sorted = <<>> THEN <<point>>
    ELSE IF sorted[Len(sorted)].timestamp <= point.timestamp
         THEN Append(sorted, point)
         ELSE Append(InsertByTimestamp(SubSeq(sorted, 1, Len(sorted) - 1), point),
                     sorted[Len(sorted)])

\* the values left in the Map's insertion order
SortByTimestampNone(points) == points

\* .sort((a, b) => a.timestamp.getTime() - b.timestamp.getTime())
RECURSIVE SortByTimestamp(_)
SortByTimestamp(points) ==
    IF points = <<>> THEN <<>>
    ELSE InsertByTimestamp(SortByTimestamp(SubSeq(points, 1, Len(points) - 1)),
                           points[Len(points)])

\* const filteredData = useMemo(() => { ... }, [historicalData, timeRange])
FilteredData(data, range, now) ==
    IF Len(data) = 0 THEN <<>>
    ELSE SortByTimestamp(
            MapValues(DailyData(TimeFiltered(data, CutoffTime(range, now)), 1, <<>>)))

(***************************************************************************)
(* ModelCountLineGraph: the series (chartData).                            *)
(***************************************************************************)
\* the total line is shown whatever is selected
ShowTotalLineAlways(selInf, selMod) == TRUE

\* selectedInferenceProviders.size === 0 && selectedModelProviders.size === 0
ShowTotalLine(selInf, selMod) == Len(selInf) = 0 /\ Len(selMod) = 0

\* counts[provider] || 0
CountOrZero(counts, provider) ==
    IF provider \in DOMAIN counts /\ counts[provider] # 0
    THEN counts[provider]
    ELSE 0

\* filteredData.map(point => ({ x: point.timestamp, y: point.totalCount }))
TotalData(filtered) ==
    [i \in 1..Len(filtered) |->
        [x |-> filtered[i].timestamp, y |-> filtered[i].totalCount]]

\* the inference series without the snapshots that lack the provider
InferenceDataOmitting(filtered, provider) ==
    LET present == SelectSeq(filtered, LAMBDA point :
                       provider \in DOMAIN point.providerCounts.inferenceProviders)
    IN  [i \in 1..Len(present) |->
            [x |-> present[i].timestamp,
             y |-> present[i].providerCounts.inferenceProviders[provider]]]

\* filteredData.map(point => ({ x: point.timestamp,
\*   y: point.providerCounts.inferenceProviders[provider] || 0 }))
InferenceData(filtered, provider) ==
    [i \in 1..Len(filtered) |->
        [x |-> filtered[i].timestamp,
         y |-> CountOrZero(filtered[i].providerCounts.inferenceProviders, provider)]]

\* filteredData.map(point => ({ x: point.timestamp,
\*   y: point.providerCounts.modelProviders[provider] || 0 }))
ModelData(filtered, provider) ==
    [i \in 1..Len(filtered) |->
        [x |-> filtered[i].timestamp,
         y |-> CountOrZero(filtered[i].providerCounts.modelProviders, provider)]]

\* const chartData = useMemo(() => { ... return { datasets } }, [...]):
\* a dataset is its label, the provider it plots and its points
ChartData(filtered, selInf, selMod) ==
    (IF ShowTotalLine(selInf, selMod)
     THEN << [label |-> "Total Models", provider |-> "", data |-> TotalData(filtered)] >>
     ELSE << >>)
    \o [k \in 1..Len(selInf) |->
          [label |-> "(Inference)", provider |-> selInf[k],
           data |-> InferenceData(filtered, selInf[k])]]
    \o [k \in 1..Len(selMod) |->
          [label |-> "(Model)", provider |-> selMod[k],
           data |-> ModelData(filtered, selMod[k])]]

(***************************************************************************)
(* ModelCountLineGraph: the y axis (yAxisConfig).                          *)
(***************************************************************************)
\* Math.ceil(n / d) for n >= 0 and d > 0; n * 0.5 and n * 0.1 are n / 2 and
\* n / 10 (the doubles n * 0.1 and n / 10 have the same ceiling for every
\* integer n below 100000)
Ceil(n, d) == (n + d - 1) \div d

\* Math.floor(n / d)
Floor(n, d) == n \div d

MaxOf(a, b) == IF a >= b THEN a ELSE b

\* the values of one point: [...(showTotalLine ? [point.totalCount] : []),
\* ...inference values, ...model values]
PointValues(point, selInf, selMod) ==
    (IF ShowTotalLine(selInf, selMod) THEN <<point.totalCount>> ELSE << >>)
    \o (IF Len(selInf) > 0
        THEN [k \in 1..Len(selInf) |->
                 CountOrZero(point.providerCounts.inferenceProviders, selInf[k])]
        ELSE << >>)
    \o (IF Len(selMod) > 0
        THEN [k \in 1..Len(selMod) |->
                 CountOrZero(point.providerCounts.modelProviders, selMod[k])]
        ELSE << >>)

\* filteredData.flatMap(point => [...])
RECURSIVE AllValues(_, _, _)
AllValues(filtered, selInf, selMod) ==
    IF filtered = <<>> THEN <<>>
    ELSE AllValues(SubSeq(filtered, 1, Len(filtered) - 1), selInf, selMod)
         \o PointValues(filtered[Len(filtered)], selInf, selMod)

\* the padding rounded down
PaddingFloor(range) ==
    IF range < 5 THEN MaxOf(2, Floor(range, 2)) ELSE Floor(range, 10)

\* the padding without its minimum of 2
PaddingNoMinimum(range) ==
    IF range < 5 THEN Ceil(range, 2) ELSE Ceil(range, 10)

\* range < 5 ? Math.max(2, Math.ceil(range * 0.5)) : Math.ceil(range * 0.1)
Padding(range) ==
    IF range < 5 THEN MaxOf(2, Ceil(range, 2)) ELSE Ceil(range, 10)

\* the lower bound without the clamp at 0
AdjustedMinUnclamped(minValue, padding) == minValue - padding

\* Math.max(0, minValue - padding)
AdjustedMin(minValue, padding) == MaxOf(0, minValue - padding)

\* the third tier dividing by 10 like its neighbours
StepSizeTenths(adjustedRange) ==
    IF adjustedRange <= 10 THEN 1
    ELSE IF adjustedRange <= 50 THEN MaxOf(1, Ceil(adjustedRange, 10))
    ELSE IF adjustedRange <= 100 THEN MaxOf(5, Ceil(adjustedRange, 10))
    ELSE MaxOf(10, Ceil(adjustedRange, 10))

\* let stepSize; if (adjustedRange <= 10) ... else ...
StepSize(adjustedRange) ==
    IF adjustedRange <= 10 THEN 1
    ELSE IF adjustedRange <= 50 THEN MaxOf(1, Ceil(adjustedRange, 10))
    ELSE IF adjustedRange <= 100 THEN MaxOf(5, Ceil(adjustedRange, 15))
    ELSE MaxOf(10, Ceil(adjustedRange, 10))

\* a default axis of ten units
DefaultAxisTen == [min |-> 0, max |-> 10, stepSize |-> 1]

\* return { min: 0, max: 100, stepSize: 10 }
DefaultAxis == [min |-> 0, max |-> 100, stepSize |-> 10]

\* const yAxisConfig = useMemo(() => { ... }, [...])
YAxisConfig(filtered, selInf, selMod) ==
    IF Len(filtered) = 0 THEN DefaultAxis
    ELSE LET allValues == AllValues(filtered, selInf, selMod)
         IN  IF Len(allValues) = 0 THEN DefaultAxis
             ELSE LET minValue == Min(Range(allValues))
                      maxValue == Max(Range(allValues))
                      range == maxValue - minValue
                      padding == Padding(range)
                      adjustedMin == AdjustedMin(minValue, padding)
                      adjustedMax == maxValue + padding
                  IN  [min |-> adjustedMin,
                       max |-> adjustedMax,
                       stepSize |-> StepSize(adjustedMax - adjustedMin)]

(***************************************************************************)
(* ModelCountLineGraph: the user's controls and the re-render.             *)
(***************************************************************************)
\* a toggle that only ever adds
ToggledSetAddOnly(selected, provider) ==
    IF provider \in Range(selected) THEN selected ELSE Append(selected, provider)

\* const newSet = new Set(selected); newSet.has(provider) ?
\* newSet.delete(provider) : newSet.add(provider)
ToggledSet(selected, provider) ==
    IF provider \in Range(selected)
    THEN SelectSeq(selected, LAMBDA q : q # provider)
    ELSE Append(selected, provider)

\* the memoised values of the render that follows a state change
Rendered(data, range, selInf, selMod) ==
    /\ filteredData' = FilteredData(data, range, clock)
    /\ chartData' = ChartData(FilteredData(data, range, clock), selInf, selMod)
    /\ yAxisConfig' = YAxisConfig(FilteredData(data, range, clock), selInf, selMod)

\* onClick={() => setTimeRange(option.value)}
SetTimeRange(range) ==
    /\ timeRange' = range
    /\ Rendered(historicalData, range,
                selectedInferenceProviders, selectedModelProviders)
    /\ UNCHANGED <<historicalData, selectedInferenceProviders,
                   selectedModelProviders>>
    /\ UNCHANGED storeVars
    /\ UNCHANGED clientVars
    /\ UNCHANGED <<exported, gatewayVars>>

\* const toggleProvider = (provider, type) => { ... }
ToggleProvider(provider, type) ==
    /\ IF type = "inference"
       THEN /\ selectedInferenceProviders' =
                   ToggledSet(selectedInferenceProviders, provider)
            /\ UNCHANGED selectedModelProviders
       ELSE /\ selectedModelProviders' =
                   ToggledSet(selectedModelProviders, provider)
            /\ UNCHANGED selectedInferenceProviders
    /\ Rendered(historicalData, timeRange,
                selectedInferenceProviders', selectedModelProviders')
    /\ UNCHANGED <<historicalData, timeRange>>
    /\ UNCHANGED storeVars
    /\ UNCHANGED clientVars
    /\ UNCHANGED <<exported, gatewayVars>>

(***************************************************************************)
(* collectAnalyticsData: the provider counts of a model list.              *)
(***************************************************************************)
\* the value of a provider field that a record does not have
Absent == "undefined"

\* the values a record's provider field takes in the model
ProviderFields == {"groq", "google", "", Absent}

ModelRecords ==
    [inference_provider : ProviderFields, model_provider : ProviderFields]

\* the length of the longest model list given to collectAnalyticsData
MaxModels == 2

ModelLists(maxLen) == UNION { [1..n -> ModelRecords] : n \in 0..maxLen }

\* a provider field taken as it is
OrUnknownNever(x) == x

\* model.inference_provider || 'Unknown': absent and empty are both falsy
OrUnknown(x) == IF x \in {Absent, ""} THEN "Unknown" ELSE x

\* counts[key] = (counts[key] || 0) + 1
Increment(counts, key) ==
    IF key \in DOMAIN counts
    THEN [counts EXCEPT ![key] = @ + 1]
    ELSE counts @@ (key :> 1)

\* currentModels.forEach(model => { ... }), for one of the two fields
RECURSIVE ProviderCounts(_, _, _)
ProviderCounts(currentModels, field, i) ==
    IF i = 0
    THEN EmptyCounts
    ELSE Increment(ProviderCounts(currentModels, field, i - 1),
                   OrUnknown(currentModels[i][field]))

\* the arguments of saveAnalyticsSnapshot(currentModels.length, ...)
CollectPayload(currentModels) ==
    Payload(Len(currentModels),
            ProviderCounts(currentModels, "inference_provider",
                           Len(currentModels)),
            ProviderCounts(currentModels, "model_provider",
                           Len(currentModels)))

(***************************************************************************)
(* The component's requests to the database, and what it renders.          *)
(***************************************************************************)
\* a response nobody is waiting for
NoResponse == [error |-> FALSE, data |-> <<>>]

FailedResponse == [error |-> TRUE, data |-> <<>>]

\* .select('*').order('timestamp', { ascending: true }); rows with equal
\* timestamps are taken in the order of their ids
RECURSIVE OrderByTimestamp(_)
OrderByTimestamp(rows) ==
    IF rows = {}
    THEN <<>>
    ELSE LET first == CHOOSE r \in rows : \A q \in rows :
                          \/ r.timestamp < q.timestamp
                          \/ r.timestamp = q.timestamp /\ r.id <= q.id
         IN  <<first>> \o OrderByTimestamp(rows \ {first})

\* data.map((item) => ({ id: item.id, ... }))
FormattedData(data) == [i \in DOMAIN data |-> FormatRow(data[i])]

\* a render that shows the chart whatever the history holds
RenderedViewNoEmptyState(data, collapsed) ==
    IF collapsed THEN "collapsed" ELSE "chart"

\* if (historicalData.length === 0) return (<empty state>); otherwise the
\* header, and the controls and chart unless collapsed
RenderedView(data, collapsed) ==
    IF Len(data) = 0
    THEN "empty"
    ELSE IF collapsed THEN "collapsed" ELSE "chart"

\* the Analytics page renders ModelCountLineGraph
Mounted == ~loading /\ error = ""

\* setHistoricalData(h) and the render that follows; nothing happens once
\* the component is unmounted
SetHistoricalData(h) ==
    IF Mounted
    THEN /\ historicalData' = h
         /\ Rendered(h, timeRange,
                     selectedInferenceProviders, selectedModelProviders)
         /\ view' = RenderedView(h, isCollapsed)
         /\ UNCHANGED <<timeRange, selectedInferenceProviders,
                        selectedModelProviders>>
    ELSE UNCHANGED <<viewVars, view>>

\* the component's state at its first render
FirstRender ==
    /\ historicalData' = <<>>
    /\ timeRange' = "7d"
    /\ selectedInferenceProviders' = <<>>
    /\ selectedModelProviders' = <<>>
    /\ Rendered(<<>>, "7d", <<>>, <<>>)
    /\ isCollapsed' = FALSE

\* the effect of [currentModels]: collectAnalyticsData() up to the rpc
CollectStarts(c, currentModels) ==
    IF Len(currentModels) = 0
    THEN UNCHANGED <<pc, txNow, lastEntry, args, ret, collectPc>>
    ELSE /\ CallBegins(c, CollectPayload(currentModels))
         /\ collectPc' = [collectPc EXCEPT ![c] = "saving"]

(***************************************************************************)
(* The Analytics page: its polling of the model list.                      *)
(***************************************************************************)
graphVars == <<isCollapsed, view>>

pageVars == <<loading, error, models, fetchPc, rawData>>

requestVars == <<loadPc, loadResp, collectPc, reloadResp, clearPc, clearResp>>

\* the answers of ai_models_main to fetchModelData
FetchAnswers(lists) ==
    {FailedResponse} \cup {[error |-> FALSE, data |-> l] : l \in lists \cup {<<>>}}

\* setInterval(loadData, 5 * 60 * 1000): a polling cycle starts
FetchStart ==
    /\ fetchPc = "idle"
    /\ fetchPc' = "sent"
    /\ UNCHANGED <<loading, error, models, rawData>>
    /\ UNCHANGED <<storeVars, viewVars, graphVars, requestVars>>
    /\ UNCHANGED <<exported, gatewayVars>>

\* the database answers supabase.from('ai_models_main').select('*')
FetchExec(answer) ==
    /\ fetchPc = "sent"
    /\ fetchPc' = "answered"
    /\ rawData' = answer
    /\ UNCHANGED <<loading, error, models>>
    /\ UNCHANGED <<storeVars, viewVars, graphVars, requestVars>>
    /\ UNCHANGED <<exported, gatewayVars>>

\* fetchModelData throws on an error and on no rows
FetchSucceeded(answer) == ~answer.error /\ Len(answer.data) # 0

\* a loadData that clears the error when a fetch succeeds
ErrorAfterClearing(answer, err) ==
    IF FetchSucceeded(answer) THEN ""
    ELSE IF answer.error THEN "Supabase error"
    ELSE "No data available from ai_models_main table"

\* catch (err) { setError(err.message || 'Failed to load data') }: the only
\* write of error
ErrorAfter(answer, err) ==
    IF FetchSucceeded(answer) THEN err
    ELSE IF answer.error THEN "Supabase error"
    ELSE "No data available from ai_models_main table"

\* loadData after the await: setModels or setError, then setLoading(false),
\* and the effects of the render that follows. The call c is the one the
\* component's collectAnalyticsData uses in this cycle.
FetchRespond(c) ==
    /\ fetchPc = "answered"
    /\ pc[c] = "idle"
    /\ collectPc[c] = "idle"
    /\ fetchPc' = "idle"
    /\ rawData' = NoResponse
    /\ loading' = FALSE
    /\ models' = IF FetchSucceeded(rawData) THEN rawData.data ELSE models
    /\ error' = ErrorAfter(rawData, error)
    /\ IF error' = ""
       THEN \* <ModelCountLineGraph currentModels={models} />
            /\ IF Mounted
               THEN UNCHANGED <<viewVars, graphVars, loadPc>>
               ELSE /\ FirstRender
                    /\ view' = RenderedView(<<>>, FALSE)
                    /\ loadPc' = "sent"
            /\ CollectStarts(c, models')
       ELSE \* the error view: the component and its state are gone
            /\ FirstRender
            /\ view' = "error"
            /\ UNCHANGED <<pc, txNow, lastEntry, args, ret, collectPc, loadPc>>
    /\ UNCHANGED <<clock, store, nextId>>
    /\ UNCHANGED <<loadResp, reloadResp, clearPc, clearResp>>
    /\ UNCHANGED <<exported, gatewayVars>>

(***************************************************************************)
(* The component's requests: load, save, reload, clear.                    *)
(***************************************************************************)
\* the database answers a select of analytics_history, or the request fails
ReadAnswers == {FailedResponse, [error |-> FALSE, data |-> OrderByTimestamp(store)]}

\* loadHistoricalData up to the await
LoadExec(answer) ==
    /\ loadPc = "sent"
    /\ loadPc' = "answered"
    /\ loadResp' = answer
    /\ UNCHANGED <<collectPc, reloadResp, clearPc, clearResp>>
    /\ UNCHANGED <<storeVars, viewVars, graphVars, pageVars>>
    /\ UNCHANGED <<exported, gatewayVars>>

\* loadHistoricalData after the await
LoadRespond ==
    /\ loadPc = "answered"
    /\ loadPc' = "done"
    /\ loadResp' = NoResponse
    /\ IF loadResp.error
       THEN UNCHANGED <<viewVars, view>>
       ELSE SetHistoricalData(FormattedData(loadResp.data))
    /\ UNCHANGED <<isCollapsed, collectPc, reloadResp, clearPc, clearResp>>
    /\ UNCHANGED <<storeVars, pageVars>>
    /\ UNCHANGED <<exported, gatewayVars>>

\* the rpc fails (network or database error): nothing is inserted
RpcFail(c) ==
    /\ pc[c] \in {"begun", "selected"}
    /\ pc' = [pc EXCEPT ![c] = "idle"]
    /\ ret' = [ret EXCEPT ![c] = "error"]
    /\ txNow' = [txNow EXCEPT ![c] = 0]
    /\ lastEntry' = [lastEntry EXCEPT ![c] = NoEntry]
    /\ args' = [args EXCEPT ![c] = NoArgs]
    /\ UNCHANGED <<clock, store, nextId>>
    /\ UNCHANGED <<viewVars, clientVars>>
    /\ UNCHANGED <<exported, gatewayVars>>
\* a saveAnalyticsSnapshot that reports success whatever the rpc answered
SaveSucceededAlways(result) == TRUE

\* saveAnalyticsSnapshot: if (error) return false; return true. The boolean
\* the stored procedure returns is not looked at.
SaveSucceeded(result) == result # "error"

\* collectAnalyticsData after await saveAnalyticsSnapshot(...): if (success)
\* the reload query is sent
SaveRespond(c) ==
    /\ collectPc[c] = "saving"
    /\ pc[c] = "idle"
    /\ collectPc' = [collectPc EXCEPT ![c] =
                        IF SaveSucceeded(ret[c]) THEN "reloadSent" ELSE "idle"]
    /\ UNCHANGED <<loadPc, loadResp, reloadResp, clearPc, clearResp>>
    /\ UNCHANGED <<storeVars, viewVars, graphVars, pageVars>>
    /\ UNCHANGED <<exported, gatewayVars>>

\* the database answers the reload query
ReloadExec(c, answer) ==
    /\ collectPc[c] = "reloadSent"
    /\ collectPc' = [collectPc EXCEPT ![c] = "reloadAnswered"]
    /\ reloadResp' = [reloadResp EXCEPT ![c] = answer]
    /\ UNCHANGED <<loadPc, loadResp, clearPc, clearResp>>
    /\ UNCHANGED <<storeVars, viewVars, graphVars, pageVars>>
    /\ UNCHANGED <<exported, gatewayVars>>

\* a reload whose answer is taken whatever it says
ReloadAcceptedAlways(answer) == TRUE

\* if (!error && data)
ReloadAccepted(answer) == ~answer.error

\* collectAnalyticsData after the reload's await
ReloadRespond(c) ==
    /\ collectPc[c] = "reloadAnswered"
    /\ collectPc' = [collectPc EXCEPT ![c] = "idle"]
    /\ reloadResp' = [reloadResp EXCEPT ![c] = NoResponse]
    /\ IF ReloadAccepted(reloadResp[c])
       THEN SetHistoricalData(FormattedData(reloadResp[c].data))
       ELSE UNCHANGED <<viewVars, view>>
    /\ UNCHANGED <<isCollapsed, loadPc, loadResp, clearPc, clearResp>>
    /\ UNCHANGED <<storeVars, pageVars>>
    /\ UNCHANGED <<exported, gatewayVars>>

\* the number of rows ever inserted up to which the user still clicks
\* 'clear all'
MaxRowsBeforeClear == 1

\* onClick={clearData}: the button is in the header, which the empty state
\* does not have
ClearClick ==
    /\ Mounted
    /\ Len(historicalData) # 0
    /\ clearPc = "idle"
    /\ nextId - 1 <= MaxRowsBeforeClear
    /\ clearPc' = "sent"
    /\ UNCHANGED <<loadPc, loadResp, collectPc, reloadResp, clearResp>>
    /\ UNCHANGED <<storeVars, viewVars, graphVars, pageVars>>
    /\ UNCHANGED <<exported, gatewayVars>>

\* a delete that spares the first row
DeletedButFirst(row) == row.id # 1

\* .delete().neq('id', 0)
Deleted(row) == row.id # 0

\* the database runs the delete, or the request fails
ClearExec(ok) ==
    /\ clearPc = "sent"
    /\ clearPc' = "answered"
    /\ IF ok
       THEN /\ store' = {r \in store : ~Deleted(r)}
            /\ clearResp' = NoResponse
       ELSE /\ clearResp' = FailedResponse
            /\ UNCHANGED store
    /\ UNCHANGED <<clock, nextId, pc, txNow, lastEntry, args, ret>>
    /\ UNCHANGED <<loadPc, loadResp, collectPc, reloadResp>>
    /\ UNCHANGED <<viewVars, graphVars, pageVars>>
    /\ UNCHANGED <<exported, gatewayVars>>

\* a clearData that never empties the history
ClearSucceededNever(answer) == FALSE

\* if (error) { console.error(...) } else { setHistoricalData([]) }
ClearSucceeded(answer) == ~answer.error

\* clearData after the await
ClearRespond ==
    /\ clearPc = "answered"
    /\ clearPc' = "idle"
    /\ clearResp' = NoResponse
    /\ IF ClearSucceeded(clearResp)
       THEN SetHistoricalData(<<>>)
       ELSE UNCHANGED <<viewVars, view>>
    /\ UNCHANGED <<isCollapsed, loadPc, loadResp, collectPc, reloadResp>>
    /\ UNCHANGED <<storeVars, pageVars>>
    /\ UNCHANGED <<exported, gatewayVars>>

\* onClick={() => setIsCollapsed(!isCollapsed)}
ToggleCollapsed ==
    /\ Mounted
    /\ Len(historicalData) # 0
    /\ isCollapsed' = ~isCollapsed
    /\ view' = RenderedView(historicalData, isCollapsed')
    /\ UNCHANGED <<storeVars, viewVars, pageVars, requestVars>>
    /\ UNCHANGED <<exported, gatewayVars>>

(***************************************************************************)
(* The export of the history.                                              *)
(***************************************************************************)
\* nothing downloaded yet
NoDocument == <<>>

\* a date written without its time of day
ToISOStringDateOnly(t) == [date |-> t \div DayHours, time |-> 0]

\* Date.prototype.toISOString(): the text "YYYY-MM-DDTHH:00:00.000Z", held
\* as its date (days since the epoch) and its time of day
ToISOString(t) == [date |-> t \div DayHours, time |-> t % DayHours]

\* JSON.stringify of an object of counts: its members "key": value
StringifyCounts(counts) == { <<k, counts[k]>> : k \in DOMAIN counts }

\* const exportableData = historicalData.map(point => ({ timestamp:
\* point.timestamp.toISOString(), totalCount, providerCounts })), then
\* JSON.stringify(exportableData, null, 2): the entries of the array in
\* order, the id left out
ExportableData(data) ==
    [i \in 1..Len(data) |->
        [timestamp |-> ToISOString(data[i].timestamp),
         totalCount |-> data[i].totalCount,
         providerCounts |->
            [inferenceProviders |->
                StringifyCounts(data[i].providerCounts.inferenceProviders),
             modelProviders |->
                StringifyCounts(data[i].providerCounts.modelProviders)]]]

\* the Export button of the header, rendered once the history is non-empty
ExportData ==
    /\ Mounted
    /\ Len(historicalData) # 0
    /\ exported' = ExportableData(historicalData)
    /\ UNCHANGED <<storeVars, viewVars, clientVars, gatewayVars>>

(***************************************************************************)
(* The bulk write gateway: replaceAllModels.                               *)
(***************************************************************************)
\* const batchSize = 100
batchSize == 100

\* no response sent yet
NoReply == [status |-> 0, body |-> [error |-> ""]]

\* what an awaited call of the database client produces: the change applied;
\* a result carrying an error, nothing applied; or a rejected promise,
\* nothing applied
Outcomes == {"ok", "error", "thrown"}

\* the insert of a batch: one row per model, ids from the table's serial
InsertedRows(batch, firstId) ==
    { [id |-> firstId + k - 1, model |-> batch[k]] : k \in 1..Len(batch) }

\* catch (error) { res.status(500).json({ error: error.message }) }
CaughtReply == [status |-> 500, body |-> [error |-> "message"]]

\* const modelsData = req.body.models || []; if (!modelsData.length) return
\* res.status(400).json(...)
ReplaceStart ==
    /\ replacePc = "received"
    /\ IF Len(modelsData) = 0
       THEN /\ res' = [status |-> 400,
                       body |-> [error |-> "No models data provided"]]
            /\ replacePc' = "done"
       ELSE /\ res' = res
            /\ replacePc' = "deleting"
    /\ UNCHANGED <<modelsData, ai_models_discovery, tableNextId, batchIndex,
                   insertedCount, awaited>>
    /\ UNCHANGED <<storeVars, viewVars, clientVars, exported>>

\* await supabase.from('ai_models_discovery').delete().neq('id', 0); the
\* result is not looked at; let insertedCount = 0; let i = 0
ClearExisting(outcome) ==
    /\ replacePc = "deleting"
    /\ awaited' = outcome
    /\ ai_models_discovery' =
          IF outcome = "ok"
          THEN { row \in ai_models_discovery : ~Deleted(row) }
          ELSE ai_models_discovery
    /\ IF outcome = "thrown"
       THEN /\ res' = CaughtReply
            /\ replacePc' = "done"
       ELSE /\ res' = res
            /\ replacePc' = "inserting"
    /\ batchIndex' = 0
    /\ insertedCount' = 0
    /\ UNCHANGED <<modelsData, tableNextId>>
    /\ UNCHANGED <<storeVars, viewVars, clientVars, exported>>

\* const batch = modelsData.slice(i, i + batchSize)
Batch(data, i) ==
    SubSeq(data, i + 1, Min({i + batchSize, Len(data)}))

\* one turn of the loop: await supabase...insert(batch); the result is not
\* looked at; insertedCount += batch.length; i += batchSize
InsertBatch(outcome) ==
    /\ replacePc = "inserting"
    /\ batchIndex < Len(modelsData)
    /\ awaited' = outcome
    /\ IF outcome = "ok"
       THEN /\ ai_models_discovery' =
                  ai_models_discovery \cup
                  InsertedRows(Batch(modelsData, batchIndex), tableNextId)
            /\ tableNextId' =
                  tableNextId + Len(Batch(modelsData, batchIndex))
       ELSE UNCHANGED <<ai_models_discovery, tableNextId>>
    /\ IF outcome = "thrown"
       THEN /\ res' = CaughtReply
            /\ replacePc' = "done"
            /\ UNCHANGED <<batchIndex, insertedCount>>
       ELSE /\ insertedCount' =
                  insertedCount + Len(Batch(modelsData, batchIndex))
            /\ batchIndex' = batchIndex + batchSize
            /\ UNCHANGED <<res, replacePc>>
    /\ UNCHANGED modelsData
    /\ UNCHANGED <<storeVars, viewVars, clientVars, exported>>

\* after the loop: res.json({ status: 'success', operation: 'replace_all',
\* models_inserted: insertedCount, batches_processed: Math.ceil(...) })
ReplaceRespond ==
    /\ replacePc = "inserting"
    /\ batchIndex >= Len(modelsData)
    /\ res' = [status |-> 200,
               body |-> [status |-> "success",
                         operation |-> "replace_all",
                         models_inserted |-> insertedCount,
                         batches_processed |->
                             Ceil(Len(modelsData), batchSize)]]
    /\ replacePc' = "done"
    /\ UNCHANGED <<modelsData, ai_models_discovery, tableNextId, batchIndex,
                   insertedCount, awaited>>
    /\ UNCHANGED <<storeVars, viewVars, clientVars, exported>>

(***************************************************************************)
(* Initial states.                                                         *)
(***************************************************************************)
InitStore(now) ==
    /\ clock = now
    /\ store = {}
    /\ nextId = 1
    /\ pc = [c \in Callers |-> "idle"]
    /\ txNow = [c \in Callers |-> 0]
    /\ lastEntry = [c \in Callers |-> NoEntry]
    /\ args = [c \in Callers |-> NoArgs]
    /\ ret = [c \in Callers |-> "none"]

\* the component's first render over the loaded history
InitView(histories) ==
    /\ historicalData \in histories
    /\ timeRange = "7d"
    /\ selectedInferenceProviders = <<>>
    /\ selectedModelProviders = <<>>
    /\ filteredData = FilteredData(historicalData, "7d", clock)
    /\ chartData = ChartData(filteredData, <<>>, <<>>)
    /\ yAxisConfig = YAxisConfig(filteredData, <<>>, <<>>)

\* no request of the component in flight
InitRequests ==
    /\ loadPc = "idle"
    /\ loadResp = NoResponse
    /\ collectPc = [c \in Callers |-> "idle"]
    /\ reloadResp = [c \in Callers |-> NoResponse]
    /\ clearPc = "idle"
    /\ clearResp = NoResponse

\* the Analytics page at its first render: loading, its first loadData()
\* sent
InitPage ==
    /\ loading = TRUE
    /\ error = ""
    /\ models = <<>>
    /\ fetchPc = "sent"
    /\ rawData = NoResponse
    /\ isCollapsed = FALSE
    /\ view = "loading"
    /\ InitRequests

\* nothing exported
InitExport == exported = NoDocument

\* the gateway before any request
InitGateway ==
    /\ modelsData = <<>>
    /\ ai_models_discovery = {}
    /\ tableNextId = 1
    /\ replacePc = "idle"
    /\ batchIndex = 0
    /\ insertedCount = 0
    /\ awaited = "none"
    /\ res = NoReply

\* a model list the page holds while the component is used
SomeModels == <<[inference_provider |-> "groq", model_provider |-> "google"]>>

\* the page with the component rendered over its history, nothing in flight
InitMounted ==
    /\ loading = FALSE
    /\ error = ""
    /\ models = SomeModels
    /\ fetchPc = "idle"
    /\ rawData = NoResponse
    /\ isCollapsed = FALSE
    /\ view = RenderedView(historicalData, FALSE)
    /\ InitRequests

Init ==
    /\ InitStore(0)
    /\ InitView({<<>>})
    /\ InitPage
    /\ InitExport
    /\ InitGateway

(***************************************************************************)
(* The guard under concurrent callers, and under one sequential writer.    *)
(***************************************************************************)
\* several callers, whose statements interleave
Next ==
    \/ \E c \in Callers, p \in GuardPayloads : BeginCall(c, p)
    \/ \E c \in Callers : SelectLastEntry(c)
    \/ \E c \in Callers : InsertOrSkip(c)
    \/ Tick(MaxRaceClock)

Spec == Init /\ [][Next]_vars

\* one writer, each call completing before the next starts
NextSeq ==
    \/ \E c \in SingleWriter, p \in GuardPayloads : BeginCall(c, p)
    \/ \E c \in SingleWriter : SelectLastEntry(c)
    \/ \E c \in SingleWriter : InsertOrSkip(c)
    \/ Tick(MaxClock)

SpecSeq == Init /\ [][NextSeq]_vars

(***************************************************************************)
(* The bucketing and the chart as functions of a loaded history.           *)
(***************************************************************************)
\* the browser's clock while the view is used: day 40, 16:00Z
ChartNow == 40 * DayHours + 16

\* the snapshot times given to the bucketing: around the three cutoffs, and
\* the day of the 24-hour cutoff (day 39) on both sides of the cutoff
BucketTimes ==
    { ChartNow - 30 * DayHours - 1,
      ChartNow - 30 * DayHours,
      ChartNow - 7 * DayHours,
      ChartNow - DayHours - 14,
      ChartNow - DayHours,
      ChartNow - DayHours + 6,
      ChartNow - 14,
      ChartNow }

BucketPayloads ==
    { Payload(10, [p \in {"groq"} |-> 10], [p \in {"google"} |-> 10]),
      Payload(12, [p \in {"groq"} |-> 12], [p \in {"google"} |-> 12]) }

\* the snapshot times given to the series and axis construction: older than
\* 7 days, and two days inside the last 7
ChartTimes ==
    { ChartNow - 9 * DayHours, ChartNow - 2 * DayHours, ChartNow - 6 }

ChartPayloads ==
    { Payload(42, ("groq" :> 40) @@ ("google" :> 2), ("groq" :> 42)),
      Payload(45, ("groq" :> 45), ("google" :> 45)),
      Payload(47, ("groq" :> 40) @@ ("google" :> 7), ("groq" :> 1) @@ ("google" :> 46)),
      Payload(3, ("google" :> 3), ("google" :> 3)),
      Payload(160, ("groq" :> 150) @@ ("google" :> 10), ("groq" :> 160)) }

\* the histories loadHistoricalData can produce from rows with the given
\* times and payloads: ordered by timestamp ascending, ids in that order
Histories(times, payloads, maxLen) ==
    LET Rows(n) == [1..n -> times \X payloads]
        Ordered(tp) == \A i \in 1..(Len(tp) - 1) : tp[i][1] <= tp[i + 1][1]
        Point(tp, i) ==
            FormatRow([id |-> i,
                       timestamp |-> tp[i][1],
                       total_models |-> tp[i][2].total_models,
                       inference_provider_counts |->
                           tp[i][2].inference_provider_counts,
                       model_provider_counts |-> tp[i][2].model_provider_counts])
    IN  { [i \in 1..Len(tp) |-> Point(tp, i)] :
            tp \in UNION { {r \in Rows(n) : Ordered(r)} : n \in 0..maxLen } }

InitBucket ==
    /\ InitStore(ChartNow)
    /\ InitView(Histories(BucketTimes, BucketPayloads, MaxBucketPoints))
    /\ InitMounted
    /\ InitExport
    /\ InitGateway

NextBucket == \E range \in TimeRanges : SetTimeRange(range)

SpecBucket == InitBucket /\ [][NextBucket]_vars

InitChart ==
    /\ InitStore(ChartNow)
    /\ InitView(Histories(ChartTimes, ChartPayloads, MaxChartPoints))
    /\ InitMounted
    /\ InitExport
    /\ InitGateway

NextChart ==
    \/ \E range \in TimeRanges : SetTimeRange(range)
    \/ \E provider \in Providers, type \in {"inference", "model"} :
          ToggleProvider(provider, type)

SpecChart == InitChart /\ [][NextChart]_vars

\* the snapshot times given to the bucketing of a history loaded in any
\* order: at the three cutoffs, just before the oldest, and today
AnyOrderTimes ==
    { ChartNow - 30 * DayHours - 1,
      ChartNow - 30 * DayHours,
      ChartNow - 7 * DayHours,
      ChartNow - DayHours,
      ChartNow - 14 }

\* histories whose rows arrive in any order, ids in the order of arrival
HistoriesAnyOrder(times, payloads, maxLen) ==
    LET Point(tp, i) ==
            FormatRow([id |-> i,
                       timestamp |-> tp[i][1],
                       total_models |-> tp[i][2].total_models,
                       inference_provider_counts |->
                           tp[i][2].inference_provider_counts,
                       model_provider_counts |-> tp[i][2].model_provider_counts])
    IN  { [i \in 1..Len(tp) |-> Point(tp, i)] :
            tp \in UNION { [1..n -> times \X payloads] : n \in 0..maxLen } }

InitBucketAnyOrder ==
    /\ InitStore(ChartNow)
    /\ InitView(HistoriesAnyOrder(AnyOrderTimes, BucketPayloads, MaxBucketPoints))
    /\ InitMounted
    /\ InitExport
    /\ InitGateway

SpecBucketAnyOrder == InitBucketAnyOrder /\ [][NextBucket]_vars

(***************************************************************************)
(* The page and the component against the database.                        *)
(***************************************************************************)
\* the model lists the page fetches
ClientModelLists ==
    { SomeModels }

\* the last hour of the clock while the page is open
MaxClientClock == 12

NextClient ==
    \/ FetchStart
    \/ \E answer \in FetchAnswers(ClientModelLists) : FetchExec(answer)
    \/ \E c \in SingleWriter : FetchRespond(c)
    \/ \E answer \in ReadAnswers : LoadExec(answer)
    \/ LoadRespond
    \/ \E c \in SingleWriter : SelectLastEntry(c)
    \/ \E c \in SingleWriter : InsertOrSkip(c)
    \/ \E c \in SingleWriter : RpcFail(c)
    \/ \E c \in SingleWriter : SaveRespond(c)
    \/ \E c \in SingleWriter, answer \in ReadAnswers : ReloadExec(c, answer)
    \/ \E c \in SingleWriter : ReloadRespond(c)
    \/ ClearClick
    \/ \E ok \in BOOLEAN : ClearExec(ok)
    \/ ClearRespond
    \/ ToggleCollapsed
    \/ Tick(MaxClientClock)

SpecClient == Init /\ [][NextClient]_vars

\* the page when the answer to its first fetch has arrived: any model list
InitCollect ==
    /\ InitStore(0)
    /\ InitView({<<>>})
    /\ loading = TRUE
    /\ error = ""
    /\ models = <<>>
    /\ fetchPc = "answered"
    /\ rawData \in FetchAnswers(ModelLists(MaxModels))
    /\ isCollapsed = FALSE
    /\ view = "loading"
    /\ InitRequests
    /\ InitExport
    /\ InitGateway

\* one polling cycle, without failures of the component's requests
NextCollect ==
    \/ \E c \in SingleWriter : FetchRespond(c)
    \/ LoadExec([error |-> FALSE, data |-> OrderByTimestamp(store)])
    \/ LoadRespond
    \/ \E c \in SingleWriter : SelectLastEntry(c)
    \/ \E c \in SingleWriter : InsertOrSkip(c)
    \/ \E c \in SingleWriter : SaveRespond(c)
    \/ \E c \in SingleWriter :
          ReloadExec(c, [error |-> FALSE, data |-> OrderByTimestamp(store)])
    \/ \E c \in SingleWriter : ReloadRespond(c)

SpecCollect == InitCollect /\ [][NextCollect]_vars

(***************************************************************************)
(* The export over a loaded history, and one request to the gateway.       *)
(***************************************************************************)
NextExport ==
    \/ \E range \in TimeRanges : SetTimeRange(range)
    \/ ExportData

SpecExport == InitBucketAnyOrder /\ [][NextExport]_vars

\* the longest request body takes this many batches
MaxBatches == 3

\* the lengths of the request bodies: none, one model, and full batches with
\* and without one model more
BodyLengths ==
    {0, 1} \cup
    { b * batchSize + d : b \in 1..(MaxBatches - 1), d \in {0, 1} }

\* req.body.models: the models are told apart by their position
RequestBodies == { [k \in 1..n |-> k] : n \in BodyLengths }

\* the rows of the table before the request
OldRows == { [id |-> 1, model |-> 0], [id |-> 2, model |-> 0] }

\* one authorised request received by replaceAllModels
RequestReceived ==
    /\ modelsData \in RequestBodies
    /\ ai_models_discovery \in {{}, OldRows}
    /\ tableNextId = Cardinality(OldRows) + 1
    /\ replacePc = "received"
    /\ batchIndex = 0
    /\ insertedCount = 0
    /\ awaited = "none"
    /\ res = NoReply

NextReplace ==
    \/ ReplaceStart
    \/ \E outcome \in Outcomes : ClearExisting(outcome)
    \/ \E outcome \in Outcomes : InsertBatch(outcome)
    \/ ReplaceRespond

InitReplace ==
    /\ InitStore(0)
    /\ InitView({<<>>})
    /\ InitPage
    /\ InitExport
    /\ RequestReceived

SpecReplace == InitReplace /\ [][NextReplace]_vars

(***************************************************************************)
(* The claims about the persistence guard.                                 *)
(***************************************************************************)
StoredTimestamps == {r.timestamp : r \in store}

\* a call of c returns in this step
Returns(c) == pc[c] = "selected" /\ pc'[c] = "idle"

\* C1: with a single writer whose calls do not overlap and a clock that
\* never goes back, two consecutive successful inserts (rows with
\* consecutive ids) are at least MinInterval apart, the later one later.
C1_ConsecutiveInsertsSpaced ==
    \A r1, r2 \in store :
        r2.id = r1.id + 1 => r2.timestamp - r1.timestamp >= MinInterval

\* three inserts have succeeded and a later attempt was discarded
C1_Witness ==
    /\ Cardinality(store) >= 3
    /\ ret["tab1"] = "false"

\* C2: in every reachable state, also under concurrent callers, no two
\* stored snapshots are closer together than MinInterval.
C2_NoTwoStoredCloser ==
    \A r1, r2 \in store :
        r1 # r2 /\ r1.timestamp <= r2.timestamp
            => r2.timestamp - r1.timestamp >= MinInterval

\* C3: a call that returns while the store is empty, or while now minus the
\* latest stored timestamp is at least MinInterval, returns true and adds
\* exactly one row, with timestamp now and the three given fields.
C3_InsertsWhenDue ==
    [][\A c \in SingleWriter :
          (Returns(c) /\ (store = {} \/ txNow[c] - Max(StoredTimestamps) >= MinInterval))
          => /\ ret'[c] = "true"
             /\ \E r \in store' :
                  /\ r \notin store
                  /\ store' = store \cup {r}
                  /\ r.timestamp = txNow[c]
                  /\ r.total_models = args[c].total_models
                  /\ r.inference_provider_counts = args[c].inference_provider_counts
                  /\ r.model_provider_counts = args[c].model_provider_counts]_vars

\* an insert exactly MinInterval after the previous one has succeeded
C3_Witness ==
    /\ ret["tab1"] = "true"
    /\ \E r1, r2 \in store :
          /\ r2.id = r1.id + 1
          /\ r2.timestamp - r1.timestamp = MinInterval

\* C4: a call that returns while the latest stored snapshot is younger than
\* MinInterval returns false and leaves the stored rows exactly as they
\* were.
C4_DiscardsWhenYoung ==
    [][\A c \in SingleWriter :
          (Returns(c) /\ store # {} /\ txNow[c] - Max(StoredTimestamps) < MinInterval)
          => /\ ret'[c] = "false"
             /\ store' = store]_vars

\* a submission one hour short of MinInterval was discarded
C4_Witness ==
    /\ ret["tab1"] = "false"
    /\ store # {}
    /\ clock - Max(StoredTimestamps) = MinInterval - 1

(***************************************************************************)
(* The claims about the daily bucketing.                                   *)
(***************************************************************************)
\* the snapshots of the in-memory history inside the selected time range
InRange ==
    {p \in Range(historicalData) : p.timestamp >= CutoffTime(timeRange, clock)}

\* the snapshots of InRange taken on UTC day d
OnDay(d) == {p \in InRange : DateKey(p.timestamp) = d}

\* C5: the bucketed series has at most one point per UTC calendar day, and
\* for every day with a snapshot inside the selected time range exactly one
\* point, which is a snapshot of that day with the day's latest timestamp.
C5_OnePointPerDayTheLatest ==
    /\ \A i, j \in DOMAIN filteredData :
          i # j => DateKey(filteredData[i].timestamp) # DateKey(filteredData[j].timestamp)
    /\ \A i \in DOMAIN filteredData : filteredData[i] \in InRange
    /\ \A p \in InRange :
          LET d == DateKey(p.timestamp)
          IN  \E i \in DOMAIN filteredData :
                 /\ filteredData[i] \in OnDay(d)
                 /\ filteredData[i].timestamp = Max({q.timestamp : q \in OnDay(d)})

\* '30d' is selected, the day has a snapshot with count 10 and a later one
\* with count 12, both in range, and the series is the later one
C5_Witness ==
    \E i, j \in DOMAIN historicalData :
        /\ timeRange = "30d"
        /\ historicalData[i] \in InRange
        /\ historicalData[i].timestamp < historicalData[j].timestamp
        /\ DateKey(historicalData[i].timestamp) = DateKey(historicalData[j].timestamp)
        /\ historicalData[i].totalCount = 10
        /\ historicalData[j].totalCount = 12
        /\ filteredData = <<historicalData[j]>>

RECURSIVE IsSubsequence(_, _)
IsSubsequence(a, b) ==
    IF a = <<>> THEN TRUE
    ELSE IF b = <<>> THEN FALSE
    ELSE IF Head(a) = Head(b) THEN IsSubsequence(Tail(a), Tail(b))
    ELSE IsSubsequence(a, Tail(b))

\* C6: for the loaded history and the current clock, the bucketed series of
\* '24h' is a subsequence of that of '7d', that a subsequence of that of
\* '30d', and that a subsequence of that of 'all'.
C6_RangesNested ==
    /\ IsSubsequence(FilteredData(historicalData, "24h", clock),
                     FilteredData(historicalData, "7d", clock))
    /\ IsSubsequence(FilteredData(historicalData, "7d", clock),
                     FilteredData(historicalData, "30d", clock))
    /\ IsSubsequence(FilteredData(historicalData, "30d", clock),
                     FilteredData(historicalData, "all", clock))

\* '24h' is selected, the day of its cutoff has a snapshot before the cutoff
\* and one after it, and the '30d' series has a point the '24h' series lacks
C6_Witness ==
    /\ timeRange = "24h"
    /\ \E i, j \in DOMAIN historicalData :
          /\ DateKey(historicalData[i].timestamp) = DateKey(historicalData[j].timestamp)
          /\ historicalData[i].timestamp < CutoffTime("24h", clock)
          /\ historicalData[j].timestamp >= CutoffTime("24h", clock)
          /\ filteredData = <<historicalData[j]>>
    /\ Len(FilteredData(historicalData, "30d", clock)) > Len(filteredData)

(***************************************************************************)
(* The claims about the series and the y axis.                             *)
(***************************************************************************)
\* the datasets of the chart
Datasets == Range(chartData)

\* the values the chart plots: every y of every dataset
PlottedValues == UNION { {d.data[i].y : i \in DOMAIN d.data} : d \in Datasets }

\* the count mapping a per-provider dataset reads in a snapshot
CountsOf(d, point) ==
    IF d.label = "(Inference)"
    THEN point.providerCounts.inferenceProviders
    ELSE point.providerCounts.modelProviders

\* C7: the 'Total Models' series is in the chart exactly when no inference
\* provider and no model provider is selected; with a provider selected the
\* chart has one series per selected provider and no total series.
C7_TotalOnlyWithoutProviders ==
    LET nInf == Cardinality(Range(selectedInferenceProviders))
        nMod == Cardinality(Range(selectedModelProviders))
        hasTotal == \E d \in Datasets : d.label = "Total Models"
    IN  /\ hasTotal <=> (nInf = 0 /\ nMod = 0)
        /\ nInf + nMod > 0 => Len(chartData) = nInf + nMod

\* two providers are selected and the chart has exactly two series over a
\* non-empty bucketed sequence
C7_Witness ==
    /\ Len(selectedInferenceProviders) = 1
    /\ Len(selectedModelProviders) = 1
    /\ Len(chartData) = 2
    /\ filteredData # <<>>

\* C8: every per-provider series has one point per bucketed snapshot, in the
\* order and with the timestamps of the bucketed sequence; its value is 0
\* where the snapshot's mapping lacks the provider and the stored count
\* otherwise.
C8_ProviderSeriesZeroFilled ==
    \A d \in Datasets :
        d.label # "Total Models" =>
            /\ Len(d.data) = Len(filteredData)
            /\ \A i \in DOMAIN filteredData :
                  LET counts == CountsOf(d, filteredData[i])
                  IN  /\ d.data[i].x = filteredData[i].timestamp
                      /\ d.provider \notin DOMAIN counts => d.data[i].y = 0
                      /\ d.provider \in DOMAIN counts => d.data[i].y = counts[d.provider]

\* a selected provider is in one bucketed snapshot and not in another, and its
\* series has the stored count at the one and 0 at the other
C8_Witness ==
    \E d \in Datasets :
        /\ d.label # "Total Models"
        /\ \E i, j \in DOMAIN filteredData :
              /\ d.provider \notin DOMAIN CountsOf(d, filteredData[i])
              /\ d.provider \in DOMAIN CountsOf(d, filteredData[j])
              /\ d.data[i].y = 0
              /\ d.data[j].y > 0

\* C9: when values are plotted, the axis maximum is at least their maximum,
\* the axis minimum at most their minimum, and the axis minimum is not
\* negative.
C9_AxisContainsValues ==
    PlottedValues # {} =>
        /\ yAxisConfig.max >= Max(PlottedValues)
        /\ yAxisConfig.min <= Min(PlottedValues)
        /\ yAxisConfig.min >= 0

\* a provider is selected, the smallest plotted value is positive and smaller
\* than the padding, and the axis minimum is held at 0
C9_Witness ==
    /\ selectedInferenceProviders # <<>>
    /\ PlottedValues # {}
    /\ Min(PlottedValues) > 0
    /\ yAxisConfig.min = 0
    /\ yAxisConfig.max > Max(PlottedValues)

\* the least integer n with d * n >= r, for r >= 0
LeastMultiple(r, d) ==
    CHOOSE n \in 0..r : d * n >= r /\ \A m \in 0..r : d * m >= r => n <= m

\* C10: with range = max - min of the plotted values, the padding is
\* max(2, ceil(range / 2)) when range < 5 and ceil(range / 10) otherwise, and
\* the axis is [max(0, min - padding), max + padding]; a single bucketed
\* snapshot with totalCount 42 and no provider selected gives the one series
\* with the one point (timestamp, 42) and the axis [40, 44] with step 1.
C10_PaddedBounds ==
    /\ PlottedValues # {} =>
          LET lo == Min(PlottedValues)
              hi == Max(PlottedValues)
              range == hi - lo
              padding == IF range < 5
                         THEN (IF LeastMultiple(range, 2) > 2
                               THEN LeastMultiple(range, 2) ELSE 2)
                         ELSE LeastMultiple(range, 10)
          IN  /\ yAxisConfig.min = (IF lo - padding > 0 THEN lo - padding ELSE 0)
              /\ yAxisConfig.max = hi + padding
    /\ (/\ Len(filteredData) = 1
        /\ filteredData[1].totalCount = 42
        /\ selectedInferenceProviders = <<>>
        /\ selectedModelProviders = <<>>)
       => /\ Len(chartData) = 1
          /\ chartData[1].label = "Total Models"
          /\ chartData[1].data = << [x |-> filteredData[1].timestamp, y |-> 42] >>
          /\ yAxisConfig = [min |-> 40, max |-> 44, stepSize |-> 1]

\* the history is one snapshot with totalCount 42, in range, nothing selected
C10_Witness ==
    /\ Len(historicalData) = 1
    /\ Len(filteredData) = 1
    /\ filteredData[1].totalCount = 42
    /\ selectedInferenceProviders = <<>>
    /\ selectedModelProviders = <<>>
    /\ timeRange = "30d"
    /\ yAxisConfig.min = 40

\* C11: when values are plotted, the step size depends only on the padded
\* range R = axis max - axis min: 1 for R <= 10; max(1, ceil(R/10)) for
\* 10 < R <= 50; max(5, ceil(R/15)) for 50 < R <= 100; max(10, ceil(R/10))
\* above 100.
C11_StepTiers ==
    PlottedValues # {} =>
        LET R == yAxisConfig.max - yAxisConfig.min
            AtLeast(a, b) == IF a >= b THEN a ELSE b
        IN  yAxisConfig.stepSize =
               (IF R <= 10 THEN 1
                ELSE IF R <= 50 THEN AtLeast(1, LeastMultiple(R, 10))
                ELSE IF R <= 100 THEN AtLeast(5, LeastMultiple(R, 15))
                ELSE AtLeast(10, LeastMultiple(R, 10)))

\* a padded range above 100 whose tenth exceeds the floor of 10
C11_Witness ==
    /\ PlottedValues # {}
    /\ selectedModelProviders # <<>>
    /\ yAxisConfig.max - yAxisConfig.min > 100
    /\ yAxisConfig.stepSize > 10

\* C20: when no snapshot falls in the selected time range, so that nothing
\* is plotted, the axis is min 0, max 100, step 10.
C20_DefaultAxisWhenNothingPlotted ==
    /\ filteredData = <<>> <=> PlottedValues = {}
    /\ PlottedValues = {} => yAxisConfig = [min |-> 0, max |-> 100, stepSize |-> 10]

\* the history has snapshots, none of them in the selected last 24 hours
C20_Witness ==
    /\ historicalData # <<>>
    /\ timeRange = "24h"
    /\ selectedInferenceProviders # <<>>
    /\ filteredData = <<>>
    /\ yAxisConfig.max = 100

\* the cutoff of the selected time range, in hours before the clock
SelectedCutoff ==
    CASE timeRange = "24h" -> clock - 24
      [] timeRange = "7d" -> clock - 168
      [] timeRange = "30d" -> clock - 720
      [] timeRange = "all" -> 0

\* C17: the bucketed series has only snapshots at or after the cutoff of the
\* selected range, a snapshot exactly at the cutoff is not filtered out (its
\* day is in the series), and the series is strictly ascending by timestamp
\* whatever the order in which the history was loaded.
C17_FromCutoffAscending ==
    /\ \A i \in DOMAIN filteredData : filteredData[i].timestamp >= SelectedCutoff
    /\ \A i, j \in DOMAIN filteredData :
          i < j => filteredData[i].timestamp < filteredData[j].timestamp
    /\ \A p \in Range(historicalData) :
          p.timestamp = SelectedCutoff =>
              \E i \in DOMAIN filteredData :
                  filteredData[i].timestamp \div 24 = p.timestamp \div 24

\* '30d' is selected, the history was loaded latest first, and the series
\* starts with the snapshot taken exactly at the cutoff
C17_Witness ==
    /\ timeRange = "30d"
    /\ Len(historicalData) >= 2
    /\ historicalData[1].timestamp > historicalData[2].timestamp
    /\ Len(filteredData) >= 2
    /\ filteredData[1].timestamp = SelectedCutoff

(***************************************************************************)
(* The claims about the snapshot writer.                                   *)
(***************************************************************************)
RECURSIVE SumOfCounts(_)
SumOfCounts(counts) ==
    IF DOMAIN counts = {}
    THEN 0
    ELSE LET k == CHOOSE q \in DOMAIN counts : TRUE
         IN  counts[k] + SumOfCounts([q \in DOMAIN counts \ {k} |-> counts[q]])

CountsAddUp(p) ==
    /\ p.total_models = SumOfCounts(p.inference_provider_counts)
    /\ p.total_models = SumOfCounts(p.model_provider_counts)

\* the number of records of a list whose field is absent or empty
Missing(list, field) ==
    Cardinality({i \in DOMAIN list : list[i][field] \in {Absent, ""}})

\* C15: the snapshot submitted for a model list has totalCount equal to the
\* number of records, to the sum of inferenceProviderCounts and to the sum of
\* modelProviderCounts, the records with an absent or empty provider being
\* counted under 'Unknown'; so every stored snapshot has totalCount equal to
\* both sums.
C15_CountsAddUp ==
    /\ \A c \in Callers :
          pc[c] # "idle" =>
              /\ args[c].total_models = Len(models)
              /\ CountsAddUp(args[c])
              /\ CountOrZero(args[c].inference_provider_counts, "Unknown")
                     = Missing(models, "inference_provider")
              /\ CountOrZero(args[c].model_provider_counts, "Unknown")
                     = Missing(models, "model_provider")
              /\ DOMAIN args[c].inference_provider_counts \cap {Absent, ""} = {}
              /\ DOMAIN args[c].model_provider_counts \cap {Absent, ""} = {}
    /\ \A r \in store : CountsAddUp(r)

\* a stored snapshot of a two-record list that has a provider missing once
\* for one grouping and twice for the other
C15_Witness ==
    \E r \in store :
        /\ r.total_models = 2
        /\ Len(models) = 2
        /\ CountOrZero(r.inference_provider_counts, "Unknown") = 1
        /\ CountOrZero(r.inference_provider_counts, "groq") = 1
        /\ CountOrZero(r.model_provider_counts, "Unknown") = 2
        /\ models[1].model_provider # models[2].model_provider


(***************************************************************************)
(* The claims about the component's requests.                              *)
(***************************************************************************)
\* C12: when the stored procedure discards a submission (it returns false),
\* collectAnalyticsData goes no further: it does not re-read the history and
\* does not call setHistoricalData.
C12_DiscardReloadsNothing ==
    \A c \in Callers :
        ret[c] = "false" => collectPc[c] \notin {"reloadSent", "reloadAnswered"}


C14_RowsImmutable ==
    [][/\ \/ store' = store
          \/ \E r \in store' :
                /\ r \notin store
                /\ store' = store \cup {r}
                /\ \A q \in store : q.id # r.id
          \/ store' \subseteq store
       /\ \A r \in store, q \in store' : q.id = r.id => q = r]_vars

\* a second row was inserted after the first was read and removed
C14_Witness ==
    /\ nextId = 3
    /\ \E r \in store : r.id = 2
    /\ \A r \in store : r.id = 2
    /\ loadPc = "done"

\* C16: 'clear all' removes every stored snapshot, whatever the ids and
\* timestamps, unless the delete fails, and then removes none; the in-memory
\* history becomes empty when the delete succeeded and is left as it was when
\* the delete failed.
C16_ClearRemovesAll ==
    [][/\ (clearPc = "sent" /\ clearPc' = "answered")
             => IF clearResp'.error THEN store' = store ELSE store' = {}
       /\ (clearPc = "answered" /\ clearPc' = "idle")
             => IF clearResp.error
                THEN historicalData' = historicalData
                ELSE historicalData' = <<>>]_vars

\* a delete has emptied a store after two inserts, and the component, which
\* still shows a history, is about to handle the answer
C16_Witness ==
    /\ clearPc = "answered"
    /\ ~clearResp.error
    /\ store = {}
    /\ nextId = 3
    /\ Mounted
    /\ Len(historicalData) # 0

\* C18: a failed load, insert, reload or clear-all is handled inside the
\* component: the step that handles it leaves the page's error and loading
\* state and the in-memory history as they were (the rendered view with
\* them), and the page's error state changes only when its own fetch of the
\* model list fails.
C18_FailuresStayLocal ==
    [][/\ \/ loadPc = "answered" /\ loadPc' = "done" /\ loadResp.error
          \/ clearPc = "answered" /\ clearPc' = "idle" /\ clearResp.error
          \/ \E c \in Callers :
                \/ /\ collectPc[c] = "saving" /\ collectPc'[c] # "saving"
                   /\ ret[c] = "error"
                \/ /\ collectPc[c] = "reloadAnswered" /\ collectPc'[c] = "idle"
                   /\ reloadResp[c].error
          => /\ error' = error
             /\ loading' = loading
             /\ historicalData' = historicalData
             /\ view' = view
       /\ error' # error
             => fetchPc = "answered" /\ ~FetchSucceeded(rawData)]_vars

\* an insert has failed and a clear-all has failed, and the page still shows
\* the chart over the history it had
C18_Witness ==
    /\ \E c \in Callers : ret[c] = "error" /\ collectPc[c] = "idle"
    /\ clearPc = "answered"
    /\ clearResp.error
    /\ error = ""
    /\ view = "chart"
    /\ Len(historicalData) # 0

\* C19: while the in-memory history is empty the rendered component shows
\* the empty state, not the chart, its header or an error; the chart is
\* rendered only over a non-empty history, and then with the axis and the
\* series computed from it.
C19_EmptyStateWhenNoHistory ==
    /\ Mounted => (view = "empty" <=> Len(historicalData) = 0)
    /\ ~Mounted => view \in {"loading", "error"}
    /\ view \in {"chart", "collapsed"} => Mounted /\ Len(historicalData) # 0
    /\ view = "chart"
          => /\ yAxisConfig = YAxisConfig(filteredData,
                                selectedInferenceProviders, selectedModelProviders)
             /\ chartData = ChartData(filteredData,
                                selectedInferenceProviders, selectedModelProviders)

\* rows are stored and the load has ended, yet the history is empty (the
\* load failed, or ran before the first insert): the empty state is shown
C19_Witness ==
    /\ Mounted
    /\ view = "empty"
    /\ loadPc = "done"
    /\ store # {}


(***************************************************************************)
(* Further claims about the axis and the provider selection.               *)
(***************************************************************************)
\* C29: whenever values are plotted, the axis bounds are integers at least 2
\* apart (also when all values are equal, or all 0), the lower bound is not
\* negative, and the step size is an integer between 1 and max - min.
C29_AxisNeverDegenerate ==
    PlottedValues # {} =>
        /\ yAxisConfig.min \in Nat
        /\ yAxisConfig.max \in Nat
        /\ yAxisConfig.stepSize \in Nat
        /\ yAxisConfig.max - yAxisConfig.min >= 2
        /\ yAxisConfig.stepSize >= 1
        /\ yAxisConfig.stepSize <= yAxisConfig.max - yAxisConfig.min

\* every plotted value is 0, and the axis runs from 0 to 2 in steps of 1
C29_Witness ==
    /\ PlottedValues = {0}
    /\ yAxisConfig = [min |-> 0, max |-> 2, stepSize |-> 1]

\* the members of a selection
Members(selected) == Range(selected)

\* C30: toggleProvider(p, type) flips the membership of p in the selection of
\* that type: every other member stays, the selection of the other type is
\* left as it is, and toggling p again gives back the members the selection
\* had.
C30_ToggleFlipsOne ==
    [][\A p \in Providers :
          /\ ToggleProvider(p, "inference")
                => /\ (p \in Members(selectedInferenceProviders'))
                          <=> (p \notin Members(selectedInferenceProviders))
                   /\ Members(selectedInferenceProviders') \ {p}
                          = Members(selectedInferenceProviders) \ {p}
                   /\ selectedModelProviders' = selectedModelProviders
                   /\ Members(ToggledSet(selectedInferenceProviders', p))
                          = Members(selectedInferenceProviders)
          /\ ToggleProvider(p, "model")
                => /\ (p \in Members(selectedModelProviders'))
                          <=> (p \notin Members(selectedModelProviders))
                   /\ Members(selectedModelProviders') \ {p}
                          = Members(selectedModelProviders) \ {p}
                   /\ selectedInferenceProviders' = selectedInferenceProviders
                   /\ Members(ToggledSet(selectedModelProviders', p))
                          = Members(selectedModelProviders)]_vars

\* after a provider was added and another removed again: one inference
\* provider selected, both model providers selected
C30_Witness ==
    /\ Members(selectedInferenceProviders) = {"google"}
    /\ Members(selectedModelProviders) = Providers
    /\ Len(selectedModelProviders) = 2


(***************************************************************************)
(* Claims about the guard together with the daily bucketing and clear-all. *)
(***************************************************************************)
\* the stored snapshots of a UTC day
StoredOnDay(d) == {r \in store : DateKey(r.timestamp) = d}

StoredDays == {DateKey(r.timestamp) : r \in store}

\* the series the component shows once it has read the whole store, with
\* the time range it starts with
SeriesOfStore ==
    FilteredData(FormattedData(OrderByTimestamp(store)), "7d", clock)

\* C27: with one sequential writer no UTC day holds more than two stored
\* snapshots; the daily bucketing of the store shows one point per day, the
\* latest snapshot of that day, so it can have fewer points than the store
\* has snapshots in range.
C27_AtMostTwoPerDay ==
    /\ \A d \in StoredDays : Cardinality(StoredOnDay(d)) <= 2
    /\ Len(SeriesOfStore) = Cardinality(StoredDays)
    /\ Len(SeriesOfStore) <= Cardinality(store)
    /\ \A i \in DOMAIN SeriesOfStore :
          SeriesOfStore[i].timestamp =
              Max({r.timestamp :
                      r \in StoredOnDay(DateKey(SeriesOfStore[i].timestamp))})

\* snapshots stored at 00:00Z and 12:00Z of one day, the guard respected,
\* and a single bucketed point: the one of 12:00Z
C27_Witness ==
    /\ StoredTimestamps = {0, MinInterval}
    /\ Cardinality(StoredOnDay(0)) = 2
    /\ Len(SeriesOfStore) = 1
    /\ SeriesOfStore[1].timestamp = MinInterval


\* C26: a call whose SELECT runs over an empty store, as after a successful
\* clear-all, finds no last entry, and a call that found none inserts its
\* snapshot whatever the clock says; the rows that are stored together stay
\* at least the interval apart.
C26_EmptyStoreAccepts ==
    [][/\ \A c \in Callers :
             /\ (pc[c] = "begun" /\ pc'[c] = "selected" /\ store = {})
                   => lastEntry'[c] = NoEntry
             /\ (pc[c] = "selected" /\ pc'[c] = "idle"
                   /\ lastEntry[c] = NoEntry /\ ret'[c] # "error")
                   => /\ ret'[c] = "true"
                      /\ \E r \in store' :
                            /\ r \notin store
                            /\ r.timestamp = txNow[c]
       /\ \A r, q \in store' :
             r.id # q.id =>
                 \/ r.timestamp - q.timestamp >= MinInterval
                 \/ q.timestamp - r.timestamp >= MinInterval]_vars

\* two inserts less than the interval apart have both succeeded: the first
\* row was cleared, and the second is stored with a timestamp before hour 12
C26_Witness ==
    /\ nextId = 3
    /\ \E r \in store : r.id = 2 /\ r.timestamp < MinInterval
    /\ Cardinality(store) = 1
    /\ \A c \in Callers : ret[c] = "true" => pc[c] = "idle"
    /\ \E c \in Callers : ret[c] = "true"


\* the ids of the rows in the store
StoredIds == {r.id : r \in store}

\* C25 as stated: once a clear-all has succeeded and been handled, a step
\* that fills the empty in-memory history fills it with stored snapshots
\* only, never with deleted ones.
C25_NoStaleRepopulation ==
    [][(historicalData = <<>> /\ historicalData' # <<>> /\ clearPc = "idle")
          => \A i \in DOMAIN historicalData' :
                historicalData'[i].id \in StoredIds]_vars

\* C25, amended: a successful clear-all empties the in-memory history when
\* its answer is handled; a read answers with the rows stored when it runs;
\* and whenever the history takes a new non-empty value, that value is the
\* answer of the load or of a reload, whenever that read ran.
C25_HistoryIsSomeReadAnswer ==
    [][/\ (clearPc = "answered" /\ clearPc' = "idle" /\ ~clearResp.error)
             => historicalData' = <<>>
       /\ (loadPc = "sent" /\ loadPc' = "answered" /\ ~loadResp'.error)
             => loadResp'.data = OrderByTimestamp(store)
       /\ \A c \in Callers :
             (collectPc[c] = "reloadSent" /\ collectPc'[c] = "reloadAnswered"
                /\ ~reloadResp'[c].error)
             => reloadResp'[c].data = OrderByTimestamp(store)
       /\ (historicalData' # historicalData /\ historicalData' # <<>>)
             => \/ /\ loadPc = "answered"
                   /\ loadPc' = "done"
                   /\ historicalData' = FormattedData(loadResp.data)
                \/ \E c \in Callers :
                      /\ collectPc[c] = "reloadAnswered"
                      /\ collectPc'[c] = "idle"
                      /\ historicalData' = FormattedData(reloadResp[c].data)]_vars

\* the only snapshot ever inserted has been deleted, the clear-all has been
\* handled and nothing is in flight, yet the history shows that snapshot
C25_Witness ==
    /\ nextId = 2
    /\ store = {}
    /\ clearPc = "idle"
    /\ loadPc = "done"
    /\ \A c \in Callers : collectPc[c] = "idle"
    /\ Mounted
    /\ Len(historicalData) = 1
    /\ historicalData[1].id = 1


(***************************************************************************)
(* Claims about the Analytics page.                                        *)
(***************************************************************************)
\* C28: once the page is in its error state it stays there: no step clears
\* the error, the page shows the error view without ModelCountLineGraph, and
\* no call of the stored procedure starts, while the polling goes on.
C28_ErrorIsNeverCleared ==
    [][error # ""
          => /\ error' # ""
             /\ view' = "error"
             /\ ~(~loading' /\ error' = "")
             /\ \A c \in Callers : pc[c] = "idle" => pc'[c] = "idle"]_vars

\* the first fetch failed, a later polling cycle fetched a model list and
\* was handled, and still no snapshot was ever submitted
C28_Witness ==
    /\ error # ""
    /\ models # <<>>
    /\ fetchPc = "idle"
    /\ view = "error"
    /\ nextId = 1
    /\ \A c \in Callers : pc[c] = "idle" /\ ret[c] = "none"


\* C21: every polling cycle whose fetch yields records starts exactly one
\* call of the stored procedure, with the counts of the fetched list.
C21_EveryRefreshSubmitsOnce ==
    [][(fetchPc = "answered" /\ fetchPc' = "idle" /\ FetchSucceeded(rawData))
          => /\ \E c \in Callers :
                   /\ pc[c] = "idle"
                   /\ pc'[c] = "begun"
                   /\ args'[c] = CollectPayload(rawData.data)
             /\ Cardinality({c \in Callers : pc[c] = "idle" /\ pc'[c] = "begun"})
                   = 1]_vars


\* the latest stored snapshot of a UTC day
LatestOfDay(rows, d) ==
    CHOOSE r \in rows :
        /\ DateKey(r.timestamp) = d
        /\ \A q \in rows : DateKey(q.timestamp) = d => q.timestamp <= r.timestamp

ParseDate(text) == text.date * DayHours + text.time

\* JSON.parse of an object of counts: the mapping its members spell out
ParseCounts(members) ==
    [k \in { m[1] : m \in members } |->
        (CHOOSE m \in members : m[1] = k)[2]]

\* the snapshots a re-import of a document reconstructs
Imported(document) ==
    [i \in 1..Len(document) |->
        [timestamp |-> ParseDate(document[i].timestamp),
         totalCount |-> document[i].totalCount,
         providerCounts |->
            [inferenceProviders |->
                ParseCounts(document[i].providerCounts.inferenceProviders),
             modelProviders |->
                ParseCounts(document[i].providerCounts.modelProviders)]]]

\* C23: the exported document has one entry per snapshot of the full
\* in-memory history (whatever the time range shows), in the history's
\* order, each entry with a timestamp, a totalCount and providerCounts, and
\* importing the document gives snapshots equal to the history's in
\* timestamp, totalCount and both provider-count mappings.
C23_ExportRoundTrip ==
    exported # NoDocument =>
        /\ Len(exported) = Len(historicalData)
        /\ \A i \in 1..Len(exported) :
              /\ DOMAIN exported[i] =
                    {"timestamp", "totalCount", "providerCounts"}
              /\ Imported(exported)[i].timestamp = historicalData[i].timestamp
              /\ Imported(exported)[i].totalCount =
                    historicalData[i].totalCount
              /\ Imported(exported)[i].providerCounts =
                    historicalData[i].providerCounts

\* an export of a three-snapshot history that is not in time order, of which
\* the time range shows fewer points, with a snapshot not taken at midnight
C23_Witness ==
    /\ exported # NoDocument
    /\ Len(historicalData) = MaxBucketPoints
    /\ Len(filteredData) < Len(historicalData)
    /\ historicalData[1].timestamp > historicalData[2].timestamp
    /\ \E i \in 1..Len(historicalData) :
          historicalData[i].timestamp % DayHours # 0

\* C24: when the insert of a batch fails, the table is left as the earlier
\* batches made it, the loop stops there, and the request is answered with
\* status 500 and not with status 'success'.
C24_FailedBatchStopsWithError ==
    [][ ( /\ replacePc = "inserting"
          /\ batchIndex < Len(modelsData)
          /\ awaited' # "ok" )
        => ( /\ replacePc' = "done"
             /\ res'.status = 500
             /\ ai_models_discovery' = ai_models_discovery ) ]_vars

=============================================================================
